---- MODULE Spec2Model ----
(***************************************************************************)
(* Model of the gsi_global_secondary_index resource of                     *)
(* terraform-provider-gsi: the Create / Read / Update / Delete handlers,   *)
(* the attribute-definition reconciliation, the billing-mode validator and *)
(* the status polls, run against a model of one remote DynamoDB table.     *)
(*                                                                         *)
(* Strings that the code splits or concatenates (identities, table and     *)
(* index names) are sequences of one-character strings; attribute names,   *)
(* types and status labels are plain strings, "" standing for unset/nil.   *)
(***************************************************************************)
EXTENDS Integers, Sequences, FiniteSets, TLC

VARIABLES
    tbl,         \* the remote table: existence, attribute definitions, indexes
    autoImport,  \* GSIProvider.autoImport
    d,           \* per resource: the schema.ResourceData (persisted state when idle)
    op,          \* per resource: the running handler, its position and its locals
    fin,         \* input of the pure-function specifications
    fout         \* output of the pure-function specifications

vars == <<tbl, autoImport, d, op, fin, fout>>

----------------------------------------------------------------------------
(* Bounds *)

\* largest read/write capacity drawn in the validator specification
MaxCap == 3
\* the poll timeout, as the number of polls a wait makes before it times out
MaxPolls == 3
\* longest attribute-definition list drawn in the reconciliation specification
MaxDefs == 2
\* handler invocations and imports of one resource in a run
MaxOps == 3

----------------------------------------------------------------------------
(* Vocabulary *)

Resources == {"r1", "r2"}
\* resources driven by the sequential specification
SeqResources == {"r1"}

TableName == <<"t">>
IndexName == <<"i">>
IndexNames == {IndexName}

AttrNames == {"p", "q", "r"}
AttrTypes == {"S", "N"}

Provisioned == "PROVISIONED"
PayPerRequest == "PAY_PER_REQUEST"
BillingModes == {Provisioned, PayPerRequest}

Creating == "CREATING"
Updating == "UPDATING"
Active == "ACTIVE"
Deleting == "DELETING"

\* the remote table's attribute definitions before any index is added
InitialDefs == << [name |-> "p", type |-> "S"] >>

NoPT == [set |-> FALSE, r |-> 0, w |-> 0]
PT(r, w) == [set |-> TRUE, r |-> r, w |-> w]

\* an index that is not on the table (describeGSI's nil)
NoIndex == [status |-> ""]

----------------------------------------------------------------------------
(* Pure functions of the provider *)

\* variant of FirstColon that takes the last ':'
FirstColon_Last(id) ==
    IF \E k \in 1..Len(id) : id[k] = ":"
    THEN CHOOSE k \in 1..Len(id) :
            id[k] = ":" /\ \A j \in (k + 1)..Len(id) : id[j] # ":"
    ELSE 0

\* strings.SplitN(id, ":", 2): position of the first ':' (0 when none)
FirstColon(id) ==
    IF \E k \in 1..Len(id) : id[k] = ":"
    THEN CHOOSE k \in 1..Len(id) :
            id[k] = ":" /\ \A j \in 1..(k - 1) : id[j] # ":"
    ELSE 0

\* variant of idToNames that takes an identity without ':' for a table name
idToNames_AcceptsNoDelimiter(id) ==
    LET k == FirstColon(id) IN
    IF k = 0
    THEN [err |-> "", tn |-> id, iname |-> <<>>]
    ELSE [err |-> "", tn |-> SubSeq(id, 1, k - 1),
          iname |-> SubSeq(id, k + 1, Len(id))]

idToNames(id) ==
    LET k == FirstColon(id) IN
    IF k = 0
    THEN [err |-> "invalid_id", tn |-> <<>>, iname |-> <<>>]
    ELSE [err |-> "", tn |-> SubSeq(id, 1, k - 1),
          iname |-> SubSeq(id, k + 1, Len(id))]

\* fmt.Sprintf("%s:%s", tn, in)
MakeId(tn, iname) == tn \o <<":">> \o iname

\* first definition with that name wins; "" when there is none
getAttributeType(ad, n) ==
    IF \E k \in 1..Len(ad) : ad[k].name = n
    THEN ad[CHOOSE k \in 1..Len(ad) :
                ad[k].name = n /\ \A j \in 1..(k - 1) : ad[j].name # n].type
    ELSE ""

\* variant of validateBillingMode without the autoscaling rule
validateBillingMode_IgnoresAutoscaling(rd) ==
    IF rd.billing_mode = PayPerRequest
    THEN IF rd.read_capacity # 0 \/ rd.write_capacity # 0
         THEN "capacity_set_for_pay_per_request"
         ELSE ""
    ELSE IF rd.billing_mode = Provisioned
         THEN IF rd.read_capacity = 0 \/ rd.write_capacity = 0
              THEN "capacity_unset_for_provisioned"
              ELSE ""
         ELSE ""

\* variant of validateBillingMode that rejects PROVISIONED only when both
\* capacities are zero
validateBillingMode_BothZero(rd) ==
    IF rd.billing_mode = PayPerRequest
    THEN IF rd.read_capacity # 0 \/ rd.write_capacity # 0
         THEN "capacity_set_for_pay_per_request"
         ELSE IF rd.autoscaling_enabled
              THEN "autoscaling_with_pay_per_request"
              ELSE ""
    ELSE IF rd.billing_mode = Provisioned
         THEN IF rd.read_capacity = 0 /\ rd.write_capacity = 0
              THEN "capacity_unset_for_provisioned"
              ELSE ""
         ELSE ""

\* the error returned ("" is nil)
validateBillingMode(rd) ==
    IF rd.billing_mode = PayPerRequest
    THEN IF rd.read_capacity # 0 \/ rd.write_capacity # 0
         THEN "capacity_set_for_pay_per_request"
         ELSE IF rd.autoscaling_enabled
              THEN "autoscaling_with_pay_per_request"
              ELSE ""
    ELSE IF rd.billing_mode = Provisioned
         THEN IF rd.read_capacity = 0 \/ rd.write_capacity = 0
              THEN "capacity_unset_for_provisioned"
              ELSE ""
         ELSE ""

\* variant of ReconcileHash that puts a new definition in front of the list
ReconcileHash_Prepends(ad, rd) ==
    LET rhType == getAttributeType(ad, rd.hash_key) IN
    IF rhType = ""
    THEN [err |-> "",
          ad |-> <<[name |-> rd.hash_key, type |-> rd.hash_key_type]>> \o ad]
    ELSE IF rhType # rd.hash_key_type
         THEN [err |-> "hash_type_conflict", ad |-> ad]
         ELSE [err |-> "", ad |-> ad]

\* dynamoDBGSICreate, the hash key against the table's definitions
ReconcileHash(ad, rd) ==
    LET rhType == getAttributeType(ad, rd.hash_key) IN
    IF rhType = ""
    THEN [err |-> "",
          ad |-> Append(ad, [name |-> rd.hash_key, type |-> rd.hash_key_type])]
    ELSE IF rhType # rd.hash_key_type
         THEN [err |-> "hash_type_conflict", ad |-> ad]
         ELSE [err |-> "", ad |-> ad]

\* variant of ReconcileRange that does not ask for the range key type
ReconcileRange_NoTypeCheck(ad, rd) ==
    IF rd.range_key = ""
    THEN [err |-> "", ad |-> ad]
    ELSE LET rrType == getAttributeType(ad, rd.range_key) IN
         IF rrType = ""
         THEN [err |-> "",
               ad |-> Append(ad, [name |-> rd.range_key,
                                  type |-> rd.range_key_type])]
         ELSE IF rd.range_key_type # rrType
              THEN [err |-> "range_type_conflict", ad |-> ad]
              ELSE [err |-> "", ad |-> ad]

\* variant of ReconcileRange that accepts a range key of another type
ReconcileRange_AcceptsAnyType(ad, rd) ==
    IF rd.range_key = ""
    THEN [err |-> "", ad |-> ad]
    ELSE IF rd.range_key_type = ""
         THEN [err |-> "missing_range_key_type", ad |-> ad]
         ELSE IF getAttributeType(ad, rd.range_key) = ""
              THEN [err |-> "",
                    ad |-> Append(ad, [name |-> rd.range_key,
                                       type |-> rd.range_key_type])]
              ELSE [err |-> "", ad |-> ad]

\* variant of ReconcileRange that appends a definition it already found
ReconcileRange_AppendsAgain(ad, rd) ==
    IF rd.range_key = ""
    THEN [err |-> "", ad |-> ad]
    ELSE IF rd.range_key_type = ""
         THEN [err |-> "missing_range_key_type", ad |-> ad]
         ELSE IF getAttributeType(ad, rd.range_key) \in {"", rd.range_key_type}
              THEN [err |-> "",
                    ad |-> Append(ad, [name |-> rd.range_key,
                                       type |-> rd.range_key_type])]
              ELSE [err |-> "range_type_conflict", ad |-> ad]

\* dynamoDBGSICreate, the range key against the list the hash step left
ReconcileRange(ad, rd) ==
    IF rd.range_key = ""
    THEN [err |-> "", ad |-> ad]
    ELSE IF rd.range_key_type = ""
         THEN [err |-> "missing_range_key_type", ad |-> ad]
         ELSE LET rrType == getAttributeType(ad, rd.range_key) IN
              IF rrType = ""
              THEN [err |-> "",
                    ad |-> Append(ad, [name |-> rd.range_key,
                                       type |-> rd.range_key_type])]
              ELSE IF rd.range_key_type # rrType
                   THEN [err |-> "range_type_conflict", ad |-> ad]
                   ELSE [err |-> "", ad |-> ad]

\* dynamoDBGSICreate, both keys in the code's order: the hash error returns first
Reconcile(ad, rd) ==
    LET h == ReconcileHash(ad, rd) IN
    IF h.err # "" THEN h ELSE ReconcileRange(h.ad, rd)


\* a key of the resource schema; a key the schema does not have reads as nil (0)
Field(rd, key) ==
    CASE key = "read_capacity" -> rd.read_capacity
      [] key = "write_capacity" -> rd.write_capacity
      [] OTHER -> 0

\* variant of HasChange that reports every key as changed
HasChange_Always(old, new, key) == TRUE

\* schema.ResourceData.HasChange: the prior state against the planned value
HasChange(old, new, key) == Field(old, key) # Field(new, key)

\* variant of readGSI that does not erase the range key before it repopulates
readGSI_KeepsRangeKey(rd, t, i) ==
    LET d0 == [rd EXCEPT !.arn = i.arn,
                         !.non_key_attributes = {},
                         !.projection_type = ""]
        hType == getAttributeType(t.ad, i.hash)
        d1 == [d0 EXCEPT !.hash_key = i.hash, !.hash_key_type = hType]
        rType == IF i.range = "" THEN "" ELSE getAttributeType(t.ad, i.range)
        d2 == IF i.range = "" THEN d1
              ELSE [d1 EXCEPT !.range_key = i.range, !.range_key_type = rType]
        d3 == [d2 EXCEPT !.projection_type = i.proj,
                         !.non_key_attributes = i.nka]
        d4 == IF i.pt.set
              THEN [d3 EXCEPT !.read_capacity = i.pt.r,
                              !.write_capacity = i.pt.w]
              ELSE d3
    IN  IF hType = ""
        THEN [found |-> TRUE, err |-> "attribute_not_defined", rd |-> d0]
        ELSE IF i.range # "" /\ rType = ""
             THEN [found |-> TRUE, err |-> "attribute_not_defined", rd |-> d1]
             ELSE [found |-> TRUE, err |-> "", rd |-> d4]

\* variant of readGSI that takes the billing mode from the index and unsets
\* the capacity of an index without provisioned throughput
readGSI_SetsBillingMode(rd, t, i) ==
    LET d0 == [rd EXCEPT !.arn = i.arn,
                         !.non_key_attributes = {},
                         !.range_key = "",
                         !.projection_type = ""]
        hType == getAttributeType(t.ad, i.hash)
        d1 == [d0 EXCEPT !.hash_key = i.hash, !.hash_key_type = hType]
        rType == IF i.range = "" THEN "" ELSE getAttributeType(t.ad, i.range)
        d2 == IF i.range = "" THEN d1
              ELSE [d1 EXCEPT !.range_key = i.range, !.range_key_type = rType]
        d3 == [d2 EXCEPT !.projection_type = i.proj,
                         !.non_key_attributes = i.nka]
        d4 == IF i.pt.set
              THEN [d3 EXCEPT !.read_capacity = i.pt.r,
                              !.write_capacity = i.pt.w,
                              !.billing_mode = Provisioned]
              ELSE [d3 EXCEPT !.read_capacity = 0,
                              !.write_capacity = 0,
                              !.billing_mode = PayPerRequest]
    IN  IF hType = ""
        THEN [found |-> TRUE, err |-> "attribute_not_defined", rd |-> d0]
        ELSE IF i.range # "" /\ rType = ""
             THEN [found |-> TRUE, err |-> "attribute_not_defined", rd |-> d1]
             ELSE [found |-> TRUE, err |-> "", rd |-> d4]

\* readGSI once describeGSI has returned table t and index i (i is not nil)
readGSI(rd, t, i) ==
    LET d0 == [rd EXCEPT !.arn = i.arn,
                         !.non_key_attributes = {},
                         !.range_key = "",
                         !.projection_type = ""]
        hType == getAttributeType(t.ad, i.hash)
        d1 == [d0 EXCEPT !.hash_key = i.hash, !.hash_key_type = hType]
        rType == IF i.range = "" THEN "" ELSE getAttributeType(t.ad, i.range)
        d2 == IF i.range = "" THEN d1
              ELSE [d1 EXCEPT !.range_key = i.range, !.range_key_type = rType]
        d3 == [d2 EXCEPT !.projection_type = i.proj,
                         !.non_key_attributes = i.nka]
        d4 == IF i.pt.set
              THEN [d3 EXCEPT !.read_capacity = i.pt.r,
                              !.write_capacity = i.pt.w]
              ELSE d3
    IN  IF hType = ""
        THEN [found |-> TRUE, err |-> "attribute_not_defined", rd |-> d0]
        ELSE IF i.range # "" /\ rType = ""
             THEN [found |-> TRUE, err |-> "attribute_not_defined", rd |-> d1]
             ELSE [found |-> TRUE, err |-> "", rd |-> d4]

----------------------------------------------------------------------------
(* Configurations, resource data, requests *)

Keys(h, ht, rk, rt) ==
    [hash_key |-> h, hash_key_type |-> ht, range_key |-> rk, range_key_type |-> rt]

\* key shapes: the hash key defined on the table with that type, with another
\* type, or undefined; the range key absent, new, of the hash key's name with
\* the same or another type, or without a type
KeyChoices ==
    { Keys("p", "S", "", ""), Keys("p", "S", "q", "S"), Keys("p", "S", "q", "N"),
      Keys("p", "S", "q", ""), Keys("p", "N", "", ""),
      Keys("q", "S", "", ""), Keys("q", "S", "q", "S"), Keys("q", "S", "q", "N"),
      Keys("q", "S", "r", "N") }

ProjChoices ==
    { [projection_type |-> "ALL", non_key_attributes |-> {}],
      [projection_type |-> "INCLUDE", non_key_attributes |-> {"a"}] }

Cap(b, r, w, a) ==
    [billing_mode |-> b, read_capacity |-> r, write_capacity |-> w,
     autoscaling_enabled |-> a]

\* billing and capacity choices: the valid ones over two capacity values, and
\* one choice for each rule of the validator
CapChoices ==
    { Cap(Provisioned, r, w, FALSE) : r \in {1, 2}, w \in {1, 2} }
    \cup { Cap(Provisioned, 1, 1, TRUE), Cap(PayPerRequest, 0, 0, FALSE),
           Cap(Provisioned, 0, 1, FALSE), Cap(PayPerRequest, 1, 0, FALSE),
           Cap(PayPerRequest, 0, 0, TRUE) }

DefaultKeys == [hash_key |-> "p", hash_key_type |-> "S",
                range_key |-> "q", range_key_type |-> "N"]
DefaultProj == [projection_type |-> "ALL", non_key_attributes |-> {}]
DefaultCap == [billing_mode |-> Provisioned, read_capacity |-> 1,
               write_capacity |-> 1, autoscaling_enabled |-> FALSE]

MakeConfig(iname, k, p, c) ==
    [table_name |-> TableName, name |-> iname,
     hash_key |-> k.hash_key, hash_key_type |-> k.hash_key_type,
     range_key |-> k.range_key, range_key_type |-> k.range_key_type,
     projection_type |-> p.projection_type,
     non_key_attributes |-> p.non_key_attributes,
     billing_mode |-> c.billing_mode,
     read_capacity |-> c.read_capacity,
     write_capacity |-> c.write_capacity,
     autoscaling_enabled |-> c.autoscaling_enabled]

\* the declared configurations: the default one changed in its keys, in its
\* projection or in its billing and capacity
Configs ==
    { MakeConfig(IndexName, k, DefaultProj, DefaultCap) : k \in KeyChoices }
    \cup { MakeConfig(IndexName, DefaultKeys, p, DefaultCap) : p \in ProjChoices }
    \cup { MakeConfig(IndexName, DefaultKeys, DefaultProj, c) : c \in CapChoices }

DefaultConfig == MakeConfig(IndexName, DefaultKeys, DefaultProj, DefaultCap)

\* a ResourceData with no identity and every field at its zero value
EmptyD ==
    [id |-> <<>>, arn |-> <<>>, table_name |-> <<>>, name |-> <<>>,
     hash_key |-> "", hash_key_type |-> "",
     range_key |-> "", range_key_type |-> "",
     projection_type |-> "", non_key_attributes |-> {},
     billing_mode |-> Provisioned,
     read_capacity |-> 0, write_capacity |-> 0,
     autoscaling_enabled |-> FALSE]

\* the ResourceData handed to Create: the configuration, no identity yet
FromConfig(c) ==
    [id |-> <<>>, arn |-> <<>>, table_name |-> c.table_name, name |-> c.name,
     hash_key |-> c.hash_key, hash_key_type |-> c.hash_key_type,
     range_key |-> c.range_key, range_key_type |-> c.range_key_type,
     projection_type |-> c.projection_type,
     non_key_attributes |-> c.non_key_attributes,
     billing_mode |-> c.billing_mode,
     read_capacity |-> c.read_capacity,
     write_capacity |-> c.write_capacity,
     autoscaling_enabled |-> c.autoscaling_enabled]

\* DiffSuppressFunc of read_capacity / write_capacity: the planned value is the
\* prior one when a prior state exists and autoscaling is enabled
PlannedCap(old, new, a) == IF a THEN old ELSE new

\* the ResourceData handed to Update: prior state merged with the planned
\* values of the fields that are not ForceNew
Planned(old, c) ==
    [old EXCEPT !.billing_mode = c.billing_mode,
                !.autoscaling_enabled = c.autoscaling_enabled,
                !.read_capacity =
                    PlannedCap(old.read_capacity, c.read_capacity,
                               c.autoscaling_enabled),
                !.write_capacity =
                    PlannedCap(old.write_capacity, c.write_capacity,
                               c.autoscaling_enabled)]

NoInput ==
    [kind |-> "none", ad |-> <<>>, iname |-> <<>>, hash |-> "", range |-> "",
     proj |-> "", nka |-> {}, pt |-> NoPT, setR |-> FALSE, setW |-> FALSE]

\* variant of CreateInput with the read and write capacity exchanged
CreateInput_SwapsCapacity(ad, rd) ==
    [kind |-> "create", ad |-> ad, iname |-> rd.name,
     hash |-> rd.hash_key, range |-> rd.range_key,
     proj |-> rd.projection_type, nka |-> rd.non_key_attributes,
     pt |-> IF rd.billing_mode = Provisioned
            THEN PT(rd.write_capacity, rd.read_capacity)
            ELSE NoPT,
     setR |-> rd.billing_mode = Provisioned,
     setW |-> rd.billing_mode = Provisioned]

\* dynamodb.UpdateTableInput with a CreateGlobalSecondaryIndexAction
CreateInput(ad, rd) ==
    [kind |-> "create", ad |-> ad, iname |-> rd.name,
     hash |-> rd.hash_key, range |-> rd.range_key,
     proj |-> rd.projection_type, nka |-> rd.non_key_attributes,
     pt |-> IF rd.billing_mode = Provisioned
            THEN PT(rd.read_capacity, rd.write_capacity)
            ELSE NoPT,
     setR |-> rd.billing_mode = Provisioned,
     setW |-> rd.billing_mode = Provisioned]

\* dynamodb.UpdateTableInput with an UpdateGlobalSecondaryIndexAction: only the
\* capacity fields seen as changed are set
UpdateInput(iname, old, rd) ==
    LET cr == HasChange(old, rd, "read_capaciity")
        cw == HasChange(old, rd, "write_capacity")
    IN  [NoInput EXCEPT !.kind = "update", !.iname = iname,
                        !.pt = [set |-> TRUE,
                                r |-> IF cr THEN rd.read_capacity ELSE 0,
                                w |-> IF cw THEN rd.write_capacity ELSE 0],
                        !.setR = cr, !.setW = cw]

\* dynamodb.UpdateTableInput with a DeleteGlobalSecondaryIndexAction
DeleteInput(iname) == [NoInput EXCEPT !.kind = "delete", !.iname = iname]


----------------------------------------------------------------------------
(* The remote store *)

TableAt(t, tn) == t.exists /\ tn = TableName

\* the index description DescribeTable lists under that name, or NoIndex
IndexAt(t, tn, iname) ==
    IF TableAt(t, tn) /\ iname \in DOMAIN t.gsi THEN t.gsi[iname] ELSE NoIndex

MakeArn(tn, iname) == <<"arn">> \o tn \o <<"/">> \o iname

\* the definitions of `more` whose names `ad` does not hold yet, appended
RECURSIVE MergeDefs(_, _)
MergeDefs(ad, more) ==
    IF more = <<>> THEN ad
    ELSE MergeDefs(IF getAttributeType(ad, Head(more).name) = ""
                   THEN Append(ad, Head(more)) ELSE ad,
                   Tail(more))

DefsAgree(ad, more) ==
    \A k \in 1..Len(more) :
        getAttributeType(ad, more[k].name) \in {"", more[k].type}

\* UpdateTable as the store answers it: the error code ("" is the ack) and
\* the table afterwards
RemoteUpdateTable(t, tn, input) ==
    LET i == IndexAt(t, tn, input.iname) IN
    IF ~TableAt(t, tn)
    THEN [err |-> "ResourceNotFoundException", tbl |-> t]
    ELSE IF input.kind = "create"
    THEN IF i # NoIndex \/ input.iname \notin DOMAIN t.gsi
            \/ ~DefsAgree(t.ad, input.ad)
            \/ getAttributeType(input.ad, input.hash) = ""
            \/ (input.range # "" /\ getAttributeType(input.ad, input.range) = "")
         THEN [err |-> "ValidationException", tbl |-> t]
         ELSE [err |-> "",
               tbl |-> [t EXCEPT
                   !.ad = MergeDefs(t.ad, input.ad),
                   !.gsi[input.iname] =
                       [status |-> Creating,
                        arn |-> MakeArn(tn, input.iname),
                        hash |-> input.hash, range |-> input.range,
                        proj |-> input.proj, nka |-> input.nka,
                        pt |-> input.pt]]]
    ELSE IF i = NoIndex
    THEN [err |-> "ResourceNotFoundException", tbl |-> t]
    ELSE IF i.status # Active
    THEN [err |-> "ResourceInUseException", tbl |-> t]
    ELSE IF input.kind = "update"
    THEN [err |-> "",
          tbl |-> [t EXCEPT
              !.gsi[input.iname].status = Updating,
              !.gsi[input.iname].pt =
                  [set |-> TRUE,
                   r |-> IF input.setR THEN input.pt.r ELSE i.pt.r,
                   w |-> IF input.setW THEN input.pt.w ELSE i.pt.w]]]
    ELSE [err |-> "", tbl |-> [t EXCEPT !.gsi[input.iname].status = Deleting]]

\* an index another party put on the table before the provider ran, unlike
\* the declared default
ExternIndex(iname) ==
    [status |-> Active, arn |-> MakeArn(TableName, iname),
     hash |-> "p", range |-> "", proj |-> "KEYS_ONLY", nka |-> {},
     pt |-> PT(1, 1)]

----------------------------------------------------------------------------
(* The state poller *)

\* waitDynamoDBGSIActive's StateChangeConf
waitDynamoDBGSIActive == [pending |-> {Updating}, target |-> {Creating, Active}]

\* variant of waitDynamoDBGSIDeleted that waits for the DELETING label
waitDynamoDBGSIDeleted_TargetsDeleting ==
    [pending |-> {Active}, target |-> {Deleting}]

\* waitDynamoDBGSIDeleted's StateChangeConf
waitDynamoDBGSIDeleted == [pending |-> {Deleting, Active}, target |-> {}]

\* statusDynamoDBGSI: the label of an index description, "" for nil
statusDynamoDBGSI(i) == i.status

\* variant of WaitForState that reports success when the polls run out
WaitForState_TimeoutIsSuccess(conf, label, n) ==
    IF label \in conf.target \/ (label = "" /\ conf.target = {})
    THEN "success"
    ELSE IF label \notin conf.pending
    THEN "unexpected_state"
    ELSE IF n >= MaxPolls THEN "success" ELSE "pending"

\* variant of WaitForState that keeps polling on a label outside both sets
WaitForState_UnexpectedIsPending(conf, label, n) ==
    IF label \in conf.target \/ (label = "" /\ conf.target = {})
    THEN "success"
    ELSE IF n >= MaxPolls THEN "timeout" ELSE "pending"

\* variant of WaitForState without the timeout
WaitForState_NoTimeout(conf, label, n) ==
    IF label \in conf.target \/ (label = "" /\ conf.target = {})
    THEN "success"
    ELSE IF label \notin conf.pending
    THEN "unexpected_state"
    ELSE "pending"

\* one refresh judged by WaitForState; n is the number of polls made so far,
\* this one included
WaitForState(conf, label, n) ==
    IF label \in conf.target \/ (label = "" /\ conf.target = {})
    THEN "success"
    ELSE IF label \notin conf.pending
    THEN "unexpected_state"
    ELSE IF n >= MaxPolls THEN "timeout" ELSE "pending"


----------------------------------------------------------------------------
(* Handlers.  A handler runs from its invocation to pc = "done", the       *)
(* instant it returns; Conclude then hands the result to the framework.    *)
(* Each step is one remote call together with the local code around it,    *)
(* up to the next remote call; `fail` says that the call errs without      *)
(* reaching the table (an error other than not-found).                     *)

\* what a describe found: the index description and the table's definitions
NoSeen == [i |-> NoIndex, ad |-> <<>>]

NoOp ==
    [kind |-> "none", pc |-> "idle", isNew |-> FALSE, result |-> "",
     tn |-> <<>>, iname |-> <<>>,
     input |-> NoInput,      \* the UpdateTable request built by the handler
     adRead |-> <<>>,        \* the definitions getAttributeDefinition returned
     polls |-> 0,            \* refreshes made by the running wait
     lastLabel |-> "none",   \* label of the last refresh
     nUpd |-> 0,             \* UpdateTable calls issued by this invocation
     nDesc |-> 0,            \* DescribeTable calls issued by this invocation
     upErr |-> "none",       \* what the UpdateTable call answered
     old |-> EmptyD,         \* the state the invocation started from
     seen |-> NoSeen,        \* what the describe of readGSI found
     probe |-> "none",       \* what Create's auto-import probe met
     rdesc |-> "none",       \* what the describe of dynamoDBGSIRead met
     decl |-> DefaultConfig, \* the configuration the invocation was given
     trail |-> "",           \* how far a Create, Read, Update round trip has come
     nth |-> 0]              \* invocations and imports of the resource so far

\* the resource has no handler running and the run may invoke another one
Idle(r) == op[r].pc = "idle" /\ op[r].nth < MaxOps

NewOp(r, kind, isNew, trail) ==
    [NoOp EXCEPT !.kind = kind, !.isNew = isNew, !.old = d[r],
                 !.nth = op[r].nth + 1,
                 !.decl = IF trail = "" THEN DefaultConfig ELSE op[r].decl,
                 !.trail = trail]

\* what the framework keeps once the handler has returned: nothing without an
\* identity, nothing after a Delete that succeeded
Persist(kind, rd, res) ==
    IF rd.id = <<>> \/ (kind = "delete" /\ res = "ok") THEN EmptyD ELSE rd

\* "C": a Create that issued its create call succeeded ("A": one that adopted
\* an index); "CR", "AR": a Read followed; "CRU", "ARU": then an Update with
\* the configuration of the Create
TrailAtEnd(o, rd, res) ==
    IF o.kind = "update" THEN o.trail
    ELSE IF res # "ok" \/ rd.id = <<>> THEN ""
    ELSE IF o.kind = "create" THEN (IF o.nUpd = 0 THEN "A" ELSE "C")
    ELSE IF o.kind = "read" /\ o.trail = "C" THEN "CR"
    ELSE IF o.kind = "read" /\ o.trail = "A" THEN "AR"
    ELSE ""

\* the handler returns res ("ok" for nil) with ResourceData rd
Return(r, o, rd, res) ==
    /\ op' = [op EXCEPT ![r] = [o EXCEPT !.pc = "done", !.result = res,
                                         !.trail = TrailAtEnd(o, rd, res)]]
    /\ d' = [d EXCEPT ![r] = Persist(o.kind, rd, res)]

\* the handler goes on to its next remote call
Goto(r, o, rd, pc) ==
    /\ op' = [op EXCEPT ![r] = [o EXCEPT !.pc = pc]]
    /\ d' = [d EXCEPT ![r] = rd]

\* variant of dynamoDBGSIRead that returns the not-found error whether the
\* resource is new or not
dynamoDBGSIRead_AbsentIsError(r, o, rd, fail) ==
    LET names == idToNames(rd.id)
        o1 == [o EXCEPT !.nDesc = @ + 1]
        i == IndexAt(tbl, names.tn, names.iname)
        rr == readGSI(rd, tbl, i)
        o2 == [o1 EXCEPT !.rdesc = IF fail THEN "error" ELSE "absent"]
        o3 == [o1 EXCEPT !.rdesc = "found", !.seen = [i |-> i, ad |-> tbl.ad]]
    IN  /\ IF names.err # ""
           THEN Return(r, o, rd, names.err)
           ELSE IF fail \/ i = NoIndex
           THEN Return(r, o2, rd, "not_found")
           ELSE Return(r, o3, rr.rd, IF rr.err = "" THEN "ok" ELSE rr.err)
        /\ UNCHANGED tbl

\* dynamoDBGSIRead from its first line: idToNames, readGSI, the found switch
dynamoDBGSIRead(r, o, rd, fail) ==
    LET names == idToNames(rd.id)
        o1 == [o EXCEPT !.nDesc = @ + 1]
        i == IndexAt(tbl, names.tn, names.iname)
        rr == readGSI(rd, tbl, i)
        o2 == [o1 EXCEPT !.rdesc = IF fail THEN "error" ELSE "absent"]
        o3 == [o1 EXCEPT !.rdesc = "found", !.seen = [i |-> i, ad |-> tbl.ad]]
    IN  /\ IF names.err # ""
           THEN Return(r, o, rd, names.err)
           ELSE IF fail \/ i = NoIndex
           THEN IF ~o.isNew
                THEN Return(r, o2, [rd EXCEPT !.id = <<>>], "ok")
                ELSE Return(r, o2, rd, "not_found")
           ELSE Return(r, o3, rr.rd, IF rr.err = "" THEN "ok" ELSE rr.err)
        /\ UNCHANGED tbl

\* dynamoDBGSICreate from getAttributeDefinition to the built UpdateTableInput
CreatePrepare(r, o, rd, fail) ==
    LET o1 == [o EXCEPT !.nDesc = @ + 1]
        o2 == [o1 EXCEPT !.adRead = tbl.ad]
        rec == Reconcile(tbl.ad, rd)
        v == validateBillingMode(rd)
    IN  /\ IF fail \/ ~TableAt(tbl, o.tn)
           THEN Return(r, o1, rd, "describe_error")
           ELSE IF rec.err # ""
           THEN Return(r, o2, rd, rec.err)
           ELSE IF v # ""
           THEN Return(r, o2, rd, v)
           ELSE Goto(r, [o2 EXCEPT !.input = CreateInput(rec.ad, rd)], rd, "upd")
        /\ UNCHANGED tbl

\* variant of CreateProbe that goes on to create an index it found
CreateProbe_NeverAdopts(r, o, rd, fail) ==
    LET o1 == [o EXCEPT !.nDesc = @ + 1]
        i == IndexAt(tbl, o.tn, o.iname)
    IN  /\ IF fail
           THEN Return(r, [o1 EXCEPT !.probe = "error"], rd, "describe_error")
           ELSE Goto(r, [o1 EXCEPT !.probe = IF i = NoIndex THEN "absent"
                                             ELSE "present"], rd, "getad")
        /\ UNCHANGED tbl

\* dynamoDBGSICreate, the auto-import probe: readGSI on the declared names
CreateProbe(r, o, rd, fail) ==
    LET o1 == [o EXCEPT !.nDesc = @ + 1]
        i == IndexAt(tbl, o.tn, o.iname)
        rr == readGSI(rd, tbl, i)
        o2 == [o1 EXCEPT !.probe = "present", !.seen = [i |-> i, ad |-> tbl.ad]]
    IN  /\ IF fail
           THEN Return(r, [o1 EXCEPT !.probe = "error"], rd, "describe_error")
           ELSE IF i = NoIndex
           THEN Goto(r, [o1 EXCEPT !.probe = "absent"], rd, "getad")
           ELSE IF rr.err # ""
           THEN Return(r, o2, rr.rd, rr.err)
           ELSE Return(r, o2, [rr.rd EXCEPT !.id = MakeId(o.tn, o.iname)], "ok")
        /\ UNCHANGED tbl

\* variant of UpdateTableError in which Delete takes not-found for success
UpdateTableError_NotFoundIsOk(kind, code) ==
    IF kind = "create" THEN "create_failed"
    ELSE IF kind = "update" THEN code
    ELSE IF code = "ResourceNotFoundException" THEN "ok"
    ELSE "delete_failed"

\* the error a handler returns for an UpdateTable error
UpdateTableError(kind, code) ==
    IF kind = "create" THEN "create_failed"
    ELSE IF kind = "update" THEN code
    ELSE IF code = "ResourceNotFoundException" THEN "does_not_exist"
    ELSE "delete_failed"

\* the UpdateTable call of Create, Update or Delete and the error check after it
CallUpdateTable(r, o, rd, fail) ==
    LET res == IF fail THEN [err |-> "RequestError", tbl |-> tbl]
               ELSE RemoteUpdateTable(tbl, o.tn, o.input)
        o1 == [o EXCEPT !.nUpd = @ + 1, !.upErr = res.err]
    IN  /\ tbl' = res.tbl
        /\ IF res.err # ""
           THEN Return(r, o1, rd, UpdateTableError(o.kind, res.err))
           ELSE Goto(r, o1, rd, "wait")

\* the StateChangeConf a handler waits with
WaitConf(kind) ==
    IF kind = "delete" THEN waitDynamoDBGSIDeleted ELSE waitDynamoDBGSIActive

\* variant of AfterCreateWait that takes the index name alone for the identity
AfterCreateWait_IndexOnlyId(rd, tn, iname) ==
    LET d1 == IF rd.autoscaling_enabled
              THEN [rd EXCEPT !.read_capacity = 0, !.write_capacity = 0]
              ELSE rd
    IN  [d1 EXCEPT !.id = iname]

\* dynamoDBGSICreate between the wait and dynamoDBGSIRead
AfterCreateWait(rd, tn, iname) ==
    LET d1 == IF rd.autoscaling_enabled
              THEN [rd EXCEPT !.read_capacity = 0, !.write_capacity = 0]
              ELSE rd
    IN  [d1 EXCEPT !.id = MakeId(tn, iname)]

\* Create is invoked with configuration c
CreateBegin(r, c, fail) ==
    LET o == [NewOp(r, "create", TRUE, "") EXCEPT
                  !.tn = c.table_name, !.iname = c.name, !.decl = c]
    IN  /\ Idle(r)
        /\ d[r].id = <<>>
        /\ IF autoImport
           THEN CreateProbe(r, o, FromConfig(c), fail)
           ELSE CreatePrepare(r, o, FromConfig(c), fail)
        /\ UNCHANGED <<autoImport, fin, fout>>

\* Create goes on after a probe that found no index
CreateGetAD(r, fail) ==
    /\ op[r].pc = "getad"
    /\ CreatePrepare(r, op[r], d[r], fail)
    /\ UNCHANGED <<autoImport, fin, fout>>

\* variant of CreateCall that reads the table's definitions again for the
\* list its call carries
CreateCall_RereadsDefinitions(r, fail) ==
    /\ op[r].pc = "upd"
    /\ CallUpdateTable(r, [op[r] EXCEPT !.input.ad = MergeDefs(tbl.ad, @)],
                       d[r], fail)
    /\ UNCHANGED <<autoImport, fin, fout>>

\* Create issues its UpdateTable call
CreateCall(r, fail) ==
    /\ op[r].pc = "upd"
    /\ CallUpdateTable(r, op[r], d[r], fail)
    /\ UNCHANGED <<autoImport, fin, fout>>

\* variant of Poll in which an Update returns once its wait has succeeded
Poll_SkipsRead(r, fail) ==
    LET o == [op[r] EXCEPT !.nDesc = @ + 1, !.polls = @ + 1]
        label == statusDynamoDBGSI(IndexAt(tbl, o.tn, o.iname))
        o1 == [o EXCEPT !.lastLabel = label]
        verdict == WaitForState(WaitConf(o.kind), label, o.polls)
    IN  /\ op[r].pc = "wait"
        /\ IF fail
           THEN Return(r, o, d[r], "refresh_error")
           ELSE IF verdict = "pending"
           THEN Goto(r, o1, d[r], "wait")
           ELSE IF verdict # "success"
           THEN Return(r, o1, d[r], verdict)
           ELSE IF o.kind = "create"
           THEN Goto(r, o1, AfterCreateWait(d[r], o.tn, o.iname), "read")
           ELSE Return(r, o1, d[r], "ok")
        /\ UNCHANGED <<tbl, autoImport, fin, fout>>

\* variant of Poll that issues the UpdateTable call again while the wait is
\* pending
Poll_Reissues(r, fail) ==
    LET o == [op[r] EXCEPT !.nDesc = @ + 1, !.polls = @ + 1]
        label == statusDynamoDBGSI(IndexAt(tbl, o.tn, o.iname))
        o1 == [o EXCEPT !.lastLabel = label]
        verdict == WaitForState(WaitConf(o.kind), label, o.polls)
    IN  /\ op[r].pc = "wait"
        /\ IF fail
           THEN Return(r, o, d[r], "refresh_error") /\ UNCHANGED tbl
           ELSE IF verdict = "pending"
           THEN CallUpdateTable(r, o1, d[r], FALSE)
           ELSE IF verdict # "success"
           THEN Return(r, o1, d[r], verdict) /\ UNCHANGED tbl
           ELSE IF o.kind = "delete"
           THEN Return(r, o1, d[r], "ok") /\ UNCHANGED tbl
           ELSE IF o.kind = "create"
           THEN Goto(r, o1, AfterCreateWait(d[r], o.tn, o.iname), "read")
                /\ UNCHANGED tbl
           ELSE Goto(r, o1, d[r], "read") /\ UNCHANGED tbl
        /\ UNCHANGED <<autoImport, fin, fout>>

\* one refresh of the running wait and what the handler does with its verdict
Poll(r, fail) ==
    LET o == [op[r] EXCEPT !.nDesc = @ + 1, !.polls = @ + 1]
        label == statusDynamoDBGSI(IndexAt(tbl, o.tn, o.iname))
        o1 == [o EXCEPT !.lastLabel = label]
        verdict == WaitForState(WaitConf(o.kind), label, o.polls)
    IN  /\ op[r].pc = "wait"
        /\ IF fail
           THEN Return(r, o, d[r], "refresh_error")
           ELSE IF verdict = "pending"
           THEN Goto(r, o1, d[r], "wait")
           ELSE IF verdict # "success"
           THEN Return(r, o1, d[r], verdict)
           ELSE IF o.kind = "delete"
           THEN Return(r, o1, d[r], "ok")
           ELSE IF o.kind = "create"
           THEN Goto(r, o1, AfterCreateWait(d[r], o.tn, o.iname), "read")
           ELSE Goto(r, o1, d[r], "read")
        /\ UNCHANGED <<tbl, autoImport, fin, fout>>

\* the dynamoDBGSIRead that ends Create and Update
FinalRead(r, fail) ==
    /\ op[r].pc = "read"
    /\ dynamoDBGSIRead(r, op[r], d[r], fail)
    /\ UNCHANGED <<autoImport, fin, fout>>

\* Read is invoked on the persisted state
ReadBegin(r, fail) ==
    /\ Idle(r)
    /\ d[r].id # <<>>
    /\ dynamoDBGSIRead(r, NewOp(r, "read", FALSE, op[r].trail), d[r], fail)
    /\ UNCHANGED <<autoImport, fin, fout>>

\* the configuration an Update is given: the billing and capacity fields cc
WithCaps(c, cc) ==
    [c EXCEPT !.billing_mode = cc.billing_mode,
              !.read_capacity = cc.read_capacity,
              !.write_capacity = cc.write_capacity,
              !.autoscaling_enabled = cc.autoscaling_enabled]

\* variant of CapacityUpdatable that does not look at the billing mode
CapacityUpdatable_IgnoresBilling(rd) == ~rd.autoscaling_enabled

\* dynamoDBGSIUpdate, the condition under which a capacity update is built
CapacityUpdatable(rd) ==
    ~rd.autoscaling_enabled /\ rd.billing_mode = Provisioned

\* dynamoDBGSIUpdate, invoked with the billing and capacity fields cc, up to
\* and including its first remote call
UpdateBegin(r, cc, fail) ==
    LET same == op[r].trail \in {"CR", "AR"}
                    /\ WithCaps(op[r].decl, cc) = op[r].decl
        rd == Planned(d[r], cc)
        names == idToNames(rd.id)
        o == [NewOp(r, "update", FALSE,
                    IF same THEN op[r].trail \o "U" ELSE "") EXCEPT
                  !.tn = names.tn, !.iname = names.iname,
                  !.decl = IF same THEN op[r].decl
                           ELSE WithCaps(DefaultConfig, cc)]
        v == validateBillingMode(rd)
        input == UpdateInput(names.iname, d[r], rd)
    IN  /\ Idle(r)
        /\ d[r].id # <<>>
        /\ IF names.err # ""
           THEN Return(r, o, rd, names.err) /\ UNCHANGED tbl
           ELSE IF v # ""
           THEN Return(r, o, rd, v) /\ UNCHANGED tbl
           ELSE IF CapacityUpdatable(rd) /\ (input.setR \/ input.setW)
           THEN CallUpdateTable(r, [o EXCEPT !.input = input], rd, fail)
           ELSE dynamoDBGSIRead(r, o, rd, fail)
        /\ UNCHANGED <<autoImport, fin, fout>>

\* dynamoDBGSIDelete up to and including its UpdateTable call
DeleteBegin(r, fail) ==
    LET names == idToNames(d[r].id)
        o == [NewOp(r, "delete", FALSE, "") EXCEPT
                  !.tn = names.tn, !.iname = names.iname]
    IN  /\ Idle(r)
        /\ d[r].id # <<>>
        /\ IF names.err # ""
           THEN Return(r, o, d[r], names.err) /\ UNCHANGED tbl
           ELSE CallUpdateTable(r, [o EXCEPT !.input = DeleteInput(names.iname)],
                                d[r], fail)
        /\ UNCHANGED <<autoImport, fin, fout>>

\* identities handed to the importer: well formed and without the delimiter
ImportIds == { MakeId(TableName, IndexName), <<"t", "i">> }

\* schema.ImportStatePassthrough: the state is the given identity and nothing else
ImportState(r, id) ==
    /\ Idle(r)
    /\ d[r].id = <<>>
    /\ d' = [d EXCEPT ![r] = [EmptyD EXCEPT !.id = id]]
    /\ op' = [op EXCEPT ![r].nth = @ + 1]
    /\ UNCHANGED <<tbl, autoImport, fin, fout>>

\* the framework takes the handler's result; the handler's locals are gone
Conclude(r) ==
    /\ op[r].pc = "done"
    /\ op' = [op EXCEPT ![r] = [NoOp EXCEPT !.trail = op[r].trail,
                                            !.nth = op[r].nth,
                                            !.decl = IF op[r].trail = ""
                                                     THEN DefaultConfig
                                                     ELSE op[r].decl]]
    /\ UNCHANGED <<tbl, d, autoImport, fin, fout>>

----------------------------------------------------------------------------
(* The remote store's own steps and other parties.  They are taken between *)
(* a handler's remote calls, not at the instant a handler returns.         *)

Quiet == \A r \in Resources : op[r].pc # "done"

\* the store finishes a transition of an index
Progress(iname) ==
    /\ Quiet
    /\ tbl.exists
    /\ tbl.gsi[iname].status \in {Creating, Updating, Deleting}
    /\ tbl' = [tbl EXCEPT !.gsi[iname] =
                   IF @.status = Deleting THEN NoIndex
                   ELSE [@ EXCEPT !.status = Active]]
    /\ UNCHANGED <<autoImport, d, op, fin, fout>>

\* another party deletes the index
ExternDelete(iname) ==
    /\ Quiet
    /\ tbl.exists
    /\ tbl.gsi[iname].status = Active
    /\ tbl' = [tbl EXCEPT !.gsi[iname].status = Deleting]
    /\ UNCHANGED <<autoImport, d, op, fin, fout>>

\* another party creates an index of that name again while an Update or a
\* Delete waits on it; the wait meets it being created or, later, updated
ExternCreate(iname, st) ==
    /\ Quiet
    /\ tbl.exists
    /\ tbl.gsi[iname] = NoIndex
    /\ \E r \in Resources : /\ op[r].kind \in {"update", "delete"}
                            /\ op[r].pc = "wait" /\ op[r].iname = iname
    /\ tbl' = [tbl EXCEPT !.gsi[iname] =
                   [ExternIndex(iname) EXCEPT !.status = st]]
    /\ UNCHANGED <<autoImport, d, op, fin, fout>>

\* the table is deleted, its indexes with it
DropTable ==
    /\ Quiet
    /\ tbl.exists
    /\ tbl' = [exists |-> FALSE, ad |-> <<>>,
               gsi |-> [n \in IndexNames |-> NoIndex]]
    /\ UNCHANGED <<autoImport, d, op, fin, fout>>

----------------------------------------------------------------------------
(* Specification: one resource, one handler at a time *)

NoFun == [f |-> "none"]

Init ==
    /\ \E g \in [IndexNames -> {NoIndex} \cup {ExternIndex(n) : n \in IndexNames}] :
          /\ \A n \in IndexNames : g[n] \in {NoIndex, ExternIndex(n)}
          /\ tbl = [exists |-> TRUE, ad |-> InitialDefs, gsi |-> g]
    /\ autoImport \in BOOLEAN
    /\ d = [r \in Resources |-> EmptyD]
    /\ op = [r \in Resources |-> NoOp]
    /\ fin = NoFun
    /\ fout = NoFun

Next ==
    \/ \E r \in SeqResources, c \in Configs, fail \in BOOLEAN : CreateBegin(r, c, fail)
    \/ \E r \in SeqResources, fail \in BOOLEAN : CreateGetAD(r, fail)
    \/ \E r \in SeqResources, fail \in BOOLEAN : CreateCall(r, fail)
    \/ \E r \in SeqResources, fail \in BOOLEAN : Poll(r, fail)
    \/ \E r \in SeqResources, fail \in BOOLEAN : FinalRead(r, fail)
    \/ \E r \in SeqResources, fail \in BOOLEAN : ReadBegin(r, fail)
    \/ \E r \in SeqResources, cc \in CapChoices, fail \in BOOLEAN : UpdateBegin(r, cc, fail)
    \/ \E r \in SeqResources, fail \in BOOLEAN : DeleteBegin(r, fail)
    \/ \E r \in SeqResources, id \in ImportIds : ImportState(r, id)
    \/ \E r \in SeqResources : Conclude(r)
    \/ \E n \in IndexNames : Progress(n)
    \/ \E n \in IndexNames : ExternDelete(n)
    \/ \E n \in IndexNames, st \in {Creating, Updating} : ExternCreate(n, st)
    \/ DropTable

Spec == Init /\ [][Next]_vars

----------------------------------------------------------------------------
(* Two resources of one table created side by side: the framework runs     *)
(* the handlers of independent resources concurrently, and the handlers    *)
(* take no lock.  Each resource is created once.                           *)

ConcIndexNames == {<<"i">>, <<"j">>}

\* the index each resource declares
ConcIndex(r) == IF r = "r1" THEN <<"i">> ELSE <<"j">>

\* hash keys the table does not define yet, and one it defines
ConcKeys ==
    { Keys("q", "S", "", ""), Keys("r", "N", "", ""), Keys("q", "N", "", ""),
      Keys("p", "S", "r", "N") }

ConcConfigs(r) ==
    { MakeConfig(ConcIndex(r), k, DefaultProj, DefaultCap) : k \in ConcKeys }

InitConcurrent ==
    /\ tbl = [exists |-> TRUE, ad |-> InitialDefs,
              gsi |-> [n \in ConcIndexNames |-> NoIndex]]
    /\ autoImport \in BOOLEAN
    /\ d = [r \in Resources |-> EmptyD]
    /\ op = [r \in Resources |-> NoOp]
    /\ fin = NoFun
    /\ fout = NoFun

NextConcurrent ==
    \/ \E r \in Resources, fail \in BOOLEAN :
          \E c \in ConcConfigs(r) : op[r].nth = 0 /\ CreateBegin(r, c, fail)
    \/ \E r \in Resources, fail \in BOOLEAN : CreateGetAD(r, fail)
    \/ \E r \in Resources, fail \in BOOLEAN : CreateCall(r, fail)
    \/ \E r \in Resources, fail \in BOOLEAN : Poll(r, fail)
    \/ \E r \in Resources, fail \in BOOLEAN : FinalRead(r, fail)
    \/ \E r \in Resources : Conclude(r)
    \/ \E n \in ConcIndexNames : Progress(n)

SpecConcurrent == InitConcurrent /\ [][NextConcurrent]_vars

----------------------------------------------------------------------------
(* Specifications of the pure functions: Init draws the arguments, the     *)
(* action applies the function; the store and the handlers stay parked.    *)

Parked ==
    /\ tbl = [exists |-> TRUE, ad |-> InitialDefs,
              gsi |-> [n \in IndexNames |-> NoIndex]]
    /\ autoImport = FALSE
    /\ d = [r \in Resources |-> EmptyD]
    /\ op = [r \in Resources |-> NoOp]

\* the billing and capacity fields validateBillingMode reads
ValidateInputs ==
    { [EmptyD EXCEPT !.billing_mode = b, !.read_capacity = rc,
                     !.write_capacity = wc, !.autoscaling_enabled = a] :
        b \in BillingModes, rc \in 0..MaxCap, wc \in 0..MaxCap, a \in BOOLEAN }

InitValidate ==
    /\ Parked
    /\ fin \in { [f |-> "validate", rd |-> rd] : rd \in ValidateInputs }
    /\ fout = NoFun

ValidateStep ==
    /\ fin.f = "validate"
    /\ fout = NoFun
    /\ fout' = [f |-> "validate", err |-> validateBillingMode(fin.rd)]
    /\ UNCHANGED <<tbl, autoImport, d, op, fin>>

NextValidate == ValidateStep

SpecValidate == InitValidate /\ [][NextValidate]_vars

AllDefs == [name : AttrNames, type : AttrTypes]

\* attribute-definition lists of a table: no name defined twice
DefLists ==
    { ad \in UNION { [1..n -> AllDefs] : n \in 0..MaxDefs } :
        \A j, k \in 1..Len(ad) : ad[j].name = ad[k].name => j = k }

\* the key fields of a declaration: a range key or none, its type given or not
KeyInputs ==
    { Keys(h, ht, rk, rt) : h \in AttrNames, ht \in AttrTypes,
                            rk \in AttrNames \cup {""}, rt \in AttrTypes \cup {""} }

InitReconcile ==
    /\ Parked
    /\ fin \in { [f |-> "reconcile", ad |-> ad, keys |-> k] :
                   ad \in DefLists, k \in KeyInputs }
    /\ fout = NoFun

\* the keys reconciled against the table's list
ReconcileFirst ==
    /\ fin.f = "reconcile"
    /\ fout = NoFun
    /\ fout' = [f |-> "reconcile", n |-> 1, given |-> fin.ad,
                res |-> Reconcile(fin.ad, fin.keys)]
    /\ UNCHANGED <<tbl, autoImport, d, op, fin>>

\* the same keys reconciled against the list a successful reconciliation gave
ReconcileSecond ==
    /\ fout.f = "reconcile"
    /\ fout.n = 1
    /\ fout.res.err = ""
    /\ fout' = [f |-> "reconcile", n |-> 2, given |-> fout.res.ad,
                res |-> Reconcile(fout.res.ad, fin.keys)]
    /\ UNCHANGED <<tbl, autoImport, d, op, fin>>

NextReconcile == ReconcileFirst \/ ReconcileSecond

SpecReconcile == InitReconcile /\ [][NextReconcile]_vars

\* status labels a refresh can return, "" for an index that is absent
Labels == {"", Creating, Updating, Active, Deleting}

\* the waits of the handlers and the wait that polls CREATING until ACTIVE
PollerConfs ==
    { waitDynamoDBGSIActive, waitDynamoDBGSIDeleted,
      [pending |-> {Creating}, target |-> {Active}],
      [pending |-> {Creating, Updating}, target |-> {Active}] }

\* a wait, the labels its refreshes return in turn, and the refresh that
\* errs (0 for none)
InitPoller ==
    /\ Parked
    /\ fin \in { [f |-> "poll", conf |-> c, labels |-> ls, failAt |-> k] :
                   c \in PollerConfs, ls \in [1..MaxPolls -> Labels],
                   k \in 0..MaxPolls }
    /\ fout = NoFun

\* one refresh of WaitForState's loop
PollerStep ==
    LET n == IF fout.f = "poll" THEN fout.n + 1 ELSE 1 IN
    /\ fin.f = "poll"
    /\ fout.f = "poll" => fout.verdict = "pending"
    /\ n <= Len(fin.labels)
    /\ fout' = [f |-> "poll", n |-> n,
                verdict |-> IF fin.failAt = n THEN "refresh_error"
                            ELSE WaitForState(fin.conf, fin.labels[n], n)]
    /\ UNCHANGED <<tbl, autoImport, d, op, fin>>

NextPoller == PollerStep

\* the loop goes on as long as it can
SpecPoller == InitPoller /\ [][NextPoller]_vars /\ WF_vars(PollerStep)

\* longest table or index name drawn in the identity specification
MaxName == 2

TableChars == {"t", "u"}
IndexChars == {"i", "j", ":"}

Names(chars) == UNION { [1..k -> chars] : k \in 0..MaxName }

InitIdentity ==
    /\ Parked
    /\ fin \in { [f |-> "id", tn |-> tn, iname |-> iname] :
                   tn \in Names(TableChars), iname \in Names(IndexChars) }
    /\ fout = NoFun

\* the identity Create assigns, split again by idToNames
IdentityStep ==
    /\ fin.f = "id"
    /\ fout = NoFun
    /\ fout' = [f |-> "id", id |-> MakeId(fin.tn, fin.iname),
                names |-> idToNames(MakeId(fin.tn, fin.iname))]
    /\ UNCHANGED <<tbl, autoImport, d, op, fin>>

NextIdentity == IdentityStep

SpecIdentity == InitIdentity /\ [][NextIdentity]_vars

----------------------------------------------------------------------------
(* Properties *)

Defined(ad, n) == \E k \in 1..Len(ad) : ad[k].name = n

HoldsOther(ad, n, t) == \E k \in 1..Len(ad) : ad[k].name = n /\ ad[k].type # t

Conflicts == {"hash_type_conflict", "range_type_conflict"}

\* C1: with auto-import enabled, a first-time Create whose probe finds an
\* index of the declared name on the declared table returns at once, with
\* success, the identity "<table>:<index>" and no UpdateTable call issued.
C1_AutoImportAdopts ==
    \A r \in Resources :
        (op[r].kind = "create" /\ op[r].isNew /\ autoImport
            /\ op[r].probe = "present")
        => /\ op[r].pc = "done"
           /\ op[r].result = "ok"
           /\ op[r].nUpd = 0
           /\ d[r].id = MakeId(op[r].decl.table_name, op[r].decl.name)

\* C1 witness: a Create has adopted an index that was on the table.
C1_Witness ==
    \E r \in Resources :
        /\ op[r].kind = "create" /\ autoImport /\ op[r].probe = "present"
        /\ op[r].pc = "done" /\ op[r].result = "ok"
        /\ d[r].id = <<"t", ":", "i">>

C3_SuccessOnlyAfterActive ==
    \A r \in Resources :
        (op[r].kind = "create" /\ op[r].pc = "done" /\ op[r].result = "ok"
            /\ op[r].nUpd = 1)
        => op[r].lastLabel = Active

\* C4 as stated: a Delete whose UpdateTable call reports not-found returns
\* success.
C4_DeleteNotFoundIsSuccess ==
    \A r \in Resources :
        (op[r].kind = "delete" /\ op[r].pc = "done"
            /\ op[r].upErr = "ResourceNotFoundException")
        => op[r].result = "ok"

\* C4 as the code has it: a Delete whose UpdateTable call reports not-found
\* returns the "does not exist" error without polling, and the persisted
\* state stays as it was.
C4_DeleteNotFoundIsError ==
    \A r \in Resources :
        (op[r].kind = "delete" /\ op[r].pc = "done"
            /\ op[r].upErr = "ResourceNotFoundException")
        => /\ op[r].result = "does_not_exist"
           /\ op[r].polls = 0
           /\ d[r] = op[r].old
           /\ d[r].id # <<>>

\* C4 witness: a Delete has met not-found.
C4_Witness ==
    \E r \in Resources :
        /\ op[r].kind = "delete" /\ op[r].pc = "done"
        /\ op[r].upErr = "ResourceNotFoundException"

\* C5: under PAY_PER_REQUEST validateBillingMode returns an error exactly
\* when read_capacity or write_capacity is not 0 or autoscaling is enabled.
C5_PayPerRequestRule ==
    (fout.f = "validate" /\ fin.rd.billing_mode = PayPerRequest)
    => ((fout.err # "")
        <=> (fin.rd.read_capacity # 0 \/ fin.rd.write_capacity # 0
              \/ fin.rd.autoscaling_enabled))

\* C5 witness: validated with zero capacities and autoscaling enabled.
C5_Witness ==
    /\ fout.f = "validate" /\ fin.rd.billing_mode = PayPerRequest
    /\ fin.rd.read_capacity = 0 /\ fin.rd.write_capacity = 0
    /\ fin.rd.autoscaling_enabled
    /\ fout.err # ""

\* C6: under PROVISIONED validateBillingMode returns an error exactly when
\* read_capacity or write_capacity is 0, whatever the autoscaling flag.
C6_ProvisionedRule ==
    (fout.f = "validate" /\ fin.rd.billing_mode = Provisioned)
    => ((fout.err # "")
        <=> (fin.rd.read_capacity = 0 \/ fin.rd.write_capacity = 0))

\* C6 witness: validated with one capacity zero and autoscaling enabled.
C6_Witness ==
    /\ fout.f = "validate" /\ fin.rd.billing_mode = Provisioned
    /\ fin.rd.read_capacity = 0 /\ fin.rd.write_capacity = MaxCap
    /\ fin.rd.autoscaling_enabled
    /\ fout.err # ""

\* C7 as stated: Create's reconciliation ends in a type conflict exactly when
\* the table's list holds the hash or the range key's name with another
\* type; on a conflict no call is issued and the table's list is untouched.
C7_ConflictIffTableHolds ==
    \A r \in Resources :
        (op[r].kind = "create" /\ op[r].adRead # <<>>)
        => LET c == op[r].decl
               hc == HoldsOther(op[r].adRead, c.hash_key, c.hash_key_type)
               rc == /\ c.range_key # "" /\ c.range_key_type # ""
                     /\ HoldsOther(op[r].adRead, c.range_key, c.range_key_type)
           IN  /\ (op[r].result \in Conflicts) <=> (hc \/ rc)
               /\ op[r].result \in Conflicts
                  => op[r].nUpd = 0 /\ tbl.ad = op[r].adRead

\* C7 as the code has it: the hash key conflicts exactly when the table's
\* list holds its name with another type; the range key, reached when the
\* hash key passed and a range type is given, conflicts exactly when the
\* table's list, or the hash key binding just appended to it, holds its name
\* with another type; on a conflict no call is issued and the table's list
\* is untouched.
C7_ConflictIffReconciledListHolds ==
    \A r \in Resources :
        (op[r].kind = "create" /\ op[r].adRead # <<>>)
        => LET c == op[r].decl
               ad == op[r].adRead
               hc == HoldsOther(ad, c.hash_key, c.hash_key_type)
               rc == /\ c.range_key # "" /\ c.range_key_type # ""
                     /\ \/ HoldsOther(ad, c.range_key, c.range_key_type)
                        \/ /\ ~Defined(ad, c.hash_key)
                           /\ c.range_key = c.hash_key
                           /\ c.range_key_type # c.hash_key_type
           IN  /\ (op[r].result = "hash_type_conflict") <=> hc
               /\ (op[r].result = "range_type_conflict") <=> (~hc /\ rc)
               /\ op[r].result \in Conflicts
                  => op[r].nUpd = 0 /\ tbl.ad = op[r].adRead

\* C7 witness: a range key conflicts with the hash key binding of the same
\* declaration, its name not being on the table's list.
C7_Witness ==
    \E r \in Resources :
        /\ op[r].kind = "create" /\ op[r].adRead # <<>>
        /\ op[r].result = "range_type_conflict"
        /\ ~Defined(op[r].adRead, op[r].decl.range_key)

\* the table's list followed by the binding of each key not defined so far
ExpectedDefs(ad, c) ==
    ad \o (IF Defined(ad, c.hash_key) THEN <<>>
           ELSE <<[name |-> c.hash_key, type |-> c.hash_key_type]>>)
       \o (IF c.range_key = "" \/ Defined(ad, c.range_key)
              \/ c.range_key = c.hash_key
           THEN <<>>
           ELSE <<[name |-> c.range_key, type |-> c.range_key_type]>>)

\* C8: the attribute definitions of a create request are the table's list,
\* in order, followed by one binding for the hash key and then one for the
\* range key, each only if its name was not defined before it.
C8_CarriedDefinitions ==
    \A r \in Resources :
        (op[r].kind = "create" /\ op[r].input.kind = "create")
        => op[r].input.ad = ExpectedDefs(op[r].adRead, op[r].decl)

\* C8 witness: a create request carries the table's list and two new bindings.
C8_Witness ==
    \E r \in Resources :
        /\ op[r].kind = "create" /\ op[r].input.kind = "create"
        /\ Len(op[r].input.ad) = Len(op[r].adRead) + 2
        /\ SubSeq(op[r].input.ad, 1, Len(op[r].adRead)) = op[r].adRead

\* C9: reconciling the same keys against the list a successful
\* reconciliation produced reports no conflict and leaves the list as it is.
C9_ReconcileIdempotent ==
    (fout.f = "reconcile" /\ fout.n = 2)
    => fout.res.err = "" /\ fout.res.ad = fout.given

\* C9 witness: keys reconciled a second time after both were appended.
C9_Witness ==
    /\ fout.f = "reconcile" /\ fout.n = 2
    /\ Len(fout.given) = Len(fin.ad) + 2
    /\ fout.res.err = ""

C11_MinimalCapacityUpdate ==
    \A r \in Resources :
        (op[r].kind = "update" /\ op[r].tn # <<>>
            /\ op[r].decl.billing_mode = Provisioned
            /\ ~op[r].decl.autoscaling_enabled
            /\ op[r].decl.read_capacity # 0 /\ op[r].decl.write_capacity # 0)
        => LET cr == op[r].old.read_capacity # op[r].decl.read_capacity
               cw == op[r].old.write_capacity # op[r].decl.write_capacity
           IN  /\ (op[r].nUpd = 1) <=> (cr \/ cw)
               /\ op[r].input.kind = "update"
                  => /\ op[r].input.setR = cr
                     /\ op[r].input.setW = cw
                     /\ op[r].input.ad = <<>>
                     /\ op[r].input.hash = "" /\ op[r].input.range = ""
                     /\ op[r].input.proj = "" /\ op[r].input.nka = {}

\* C12: an Update with autoscaling enabled or under PAY_PER_REQUEST billing
\* builds no request and issues no UpdateTable call.
C12_NoUpdateWhenNotOwned ==
    \A r \in Resources :
        (op[r].kind = "update"
            /\ (op[r].decl.autoscaling_enabled
                  \/ op[r].decl.billing_mode = PayPerRequest))
        => op[r].nUpd = 0 /\ op[r].input.kind = "none"

\* C12 witness: an Update to PAY_PER_REQUEST that takes the persisted write
\* capacity to 0 has returned success without a call.
C12_Witness ==
    \E r \in Resources :
        /\ op[r].kind = "update" /\ op[r].pc = "done" /\ op[r].result = "ok"
        /\ op[r].decl.billing_mode = PayPerRequest
        /\ op[r].old.write_capacity # op[r].decl.write_capacity
        /\ op[r].rdesc = "found"
        /\ op[r].nUpd = 0

\* C13: when the describe of dynamoDBGSIRead finds the table or the index
\* absent, a resource that is not new loses its identity and the handler
\* returns no error; a new resource keeps its identity and the handler
\* returns an error.
C13_ReadOfAbsentIndex ==
    \A r \in Resources :
        op[r].rdesc = "absent"
        => /\ op[r].pc = "done"
           /\ IF op[r].isNew
              THEN /\ op[r].result = "not_found"
                   /\ d[r].id = MakeId(op[r].tn, op[r].iname)
              ELSE /\ op[r].result = "ok"
                   /\ d[r].id = <<>>
                   /\ op[r].old.id # <<>>

\* C13 witness: the Read that ends a Create found the index gone.
C13_Witness ==
    \E r \in Resources :
        /\ op[r].rdesc = "absent" /\ op[r].isNew
        /\ op[r].result = "not_found" /\ d[r].id # <<>>

\* C14: when the describe of dynamoDBGSIRead fails with an error other than
\* not-found, the handler returns an error and the identity is kept.
C14_ReadSurfacesRemoteError ==
    \A r \in Resources :
        op[r].rdesc = "error"
        => op[r].result # "ok" /\ d[r].id # <<>>

\* C15: after a readGSI that found the index, the persisted range key,
\* projection type and non-key attributes are those of the described index,
\* empty where it has none.
C15_OptionalFieldsFollowRemote ==
    \A r \in Resources :
        (op[r].pc = "done" /\ op[r].result = "ok"
            /\ (op[r].rdesc = "found" \/ op[r].probe = "present"))
        => /\ d[r].range_key = op[r].seen.i.range
           /\ d[r].projection_type = op[r].seen.i.proj
           /\ d[r].non_key_attributes = op[r].seen.i.nka

\* C15 witness: a readGSI on data that held a range key and another
\* projection found an index without a range key.
C15_Witness ==
    \E r \in Resources :
        /\ op[r].pc = "done" /\ op[r].result = "ok" /\ op[r].probe = "present"
        /\ op[r].decl.range_key # "" /\ op[r].seen.i.range = ""
        /\ op[r].decl.projection_type # op[r].seen.i.proj
        /\ d[r].range_key = ""

\* C16: after a Create with autoscaling enabled has issued its create call
\* and returned success, the persisted read and write capacity are unset.
C16_AutoscalingDropsCapacity ==
    \A r \in Resources :
        (op[r].kind = "create" /\ op[r].pc = "done" /\ op[r].result = "ok"
            /\ op[r].nUpd = 1 /\ op[r].decl.autoscaling_enabled)
        => d[r].read_capacity = 0 /\ d[r].write_capacity = 0

\* C17: after a Create that adopted an existing index, the persisted hash
\* key, range key, key types and projection are those the remote index
\* reports, and the index and the table's definitions are as the probe found
\* them.
C17_AdoptionTakesRemoteState ==
    \A r \in Resources :
        (op[r].kind = "create" /\ op[r].probe = "present"
            /\ op[r].pc = "done" /\ op[r].result = "ok")
        => LET i == op[r].seen.i
               ad == op[r].seen.ad
           IN  /\ d[r].hash_key = i.hash
               /\ d[r].hash_key_type = getAttributeType(ad, i.hash)
               /\ d[r].range_key = i.range
               /\ d[r].range_key_type =
                      (IF i.range = "" THEN ""
                       ELSE getAttributeType(ad, i.range))
               /\ d[r].projection_type = i.proj
               /\ tbl.ad = ad
               /\ IndexAt(tbl, op[r].tn, op[r].iname) = i

ValidationErrors ==
    {"capacity_set_for_pay_per_request", "autoscaling_with_pay_per_request",
     "capacity_unset_for_provisioned"}

\* C18: a Create or an Update that returns the validator's error has issued
\* no remote call, neither a describe nor an update.
C18_ValidationBeforeAnyCall ==
    \A r \in Resources :
        (op[r].kind \in {"create", "update"}
            /\ op[r].result \in ValidationErrors)
        => op[r].nDesc = 0 /\ op[r].nUpd = 0

\* C19: one invocation of a handler issues at most one UpdateTable call,
\* however many polls follow.
C19_AtMostOneUpdateTable ==
    \A r \in Resources : op[r].nUpd <= 1

\* C19 witness: a second poll after the one UpdateTable call.
C19_Witness ==
    \E r \in Resources : op[r].nUpd = 1 /\ op[r].polls >= 2

\* the errors a Create returns before it has set the identity
CreateErrorsBeforeId ==
    ValidationErrors \cup Conflicts
    \cup {"missing_range_key_type", "describe_error", "create_failed",
          "refresh_error", "unexpected_state", "timeout"}

\* C20 as stated: a Create has an identity only if it adopted an index or
\* its create call was acknowledged and its poll succeeded; a Create that
\* returns an error leaves the identity unset; Read, Update and Delete leave
\* the identity as it was or clear it.
C20_FailedCreateHasNoIdentity ==
    \A r \in Resources :
        (op[r].kind = "create" /\ op[r].pc = "done" /\ op[r].result # "ok")
        => d[r].id = <<>>

\* C20 as the code has it: a Create has an identity, "<table>:<index>", only
\* if it adopted an index or its create call was acknowledged and its poll
\* succeeded; a Create that fails before that leaves the identity unset,
\* one whose closing Read fails returns the error with the identity set;
\* Read, Update and Delete leave the identity as it was or clear it.
C20_IdentityAssignedOnce ==
    \A r \in Resources :
        /\ (op[r].kind = "create" /\ d[r].id # <<>>)
           => /\ d[r].id = MakeId(op[r].decl.table_name, op[r].decl.name)
              /\ \/ op[r].probe = "present" /\ op[r].nUpd = 0
                 \/ /\ op[r].nUpd = 1 /\ op[r].upErr = ""
                    /\ op[r].pc \in {"read", "done"}
                    /\ op[r].lastLabel \in waitDynamoDBGSIActive.target
        /\ (op[r].kind = "create" /\ op[r].pc = "done")
           => /\ op[r].result \in CreateErrorsBeforeId \cup {"ok", "not_found"}
              /\ op[r].result \in CreateErrorsBeforeId => d[r].id = <<>>
              /\ op[r].result = "not_found"
                 => d[r].id # <<>> /\ op[r].rdesc \in {"absent", "error"}
        /\ op[r].kind \in {"read", "update", "delete"}
           => d[r].id \in {op[r].old.id, <<>>}

\* C20 witness: a Create whose closing Read failed has returned an error
\* with the identity set.
C20_Witness ==
    \E r \in Resources :
        /\ op[r].kind = "create" /\ op[r].pc = "done"
        /\ op[r].result = "not_found" /\ d[r].id = <<"t", ":", "i">>

\* C21: a Delete whose delete call was acknowledged returns success only
\* after a poll that found the index absent (the table gone included); it
\* keeps polling while the index is DELETING or ACTIVE, up to the timeout,
\* and a poll that finds the index CREATING or UPDATING makes it fail.
C21_DeleteWaitsForAbsence ==
    \A r \in Resources :
        (op[r].kind = "delete" /\ op[r].upErr = "")
        => /\ (op[r].pc = "done" /\ op[r].result = "ok")
              => op[r].polls >= 1 /\ op[r].lastLabel = ""
           /\ op[r].lastLabel \in {Deleting, Active}
              => \/ op[r].pc = "wait" /\ op[r].polls < MaxPolls
                 \/ /\ op[r].pc = "done"
                    /\ op[r].result \in {"timeout", "refresh_error"}
           /\ op[r].lastLabel \in {Creating, Updating}
              => op[r].pc = "done" /\ op[r].result = "unexpected_state"

\* C21 witness: a Delete has returned success on its second poll or later.
C21_Witness ==
    \E r \in Resources :
        /\ op[r].kind = "delete" /\ op[r].upErr = ""
        /\ op[r].pc = "done" /\ op[r].result = "ok"
        /\ op[r].polls >= 2 /\ op[r].lastLabel = ""

\* the label ends the wait with success
Hit(conf, label) ==
    label \in conf.target \/ (label = "" /\ conf.target = {})

\* C22: the poller returns success at the first poll whose label is in the
\* target set (absent, for an empty target set), at that poll and with no
\* refresh after it, every label before it having been pending; a poll
\* whose label is in the target set and whose refresh did not err is a
\* success.
C22_SuccessAtFirstTarget ==
    fout.f = "poll"
    => LET n == fout.n
           label == fin.labels[n]
       IN  /\ fout.verdict = "success"
              => /\ Hit(fin.conf, label)
                 /\ \A j \in 1..(n - 1) :
                        /\ fin.labels[j] \in fin.conf.pending
                        /\ ~Hit(fin.conf, fin.labels[j])
                 /\ ~ENABLED PollerStep
           /\ (Hit(fin.conf, label) /\ fin.failAt # n)
              => fout.verdict = "success"

\* C22 witness: the labels CREATING, CREATING, ACTIVE with CREATING pending
\* and ACTIVE the target: success on the third poll.
C22_Witness ==
    /\ fout.f = "poll"
    /\ fin.conf = [pending |-> {Creating}, target |-> {Active}]
    /\ SubSeq(fin.labels, 1, 3) = <<Creating, Creating, Active>>
    /\ fout.n = 3 /\ fout.verdict = "success"

\* C23: a poll whose label is neither pending nor in the target set ends
\* the wait at once with the unexpected-state error, not with success and
\* not with the timeout.
C23_UnexpectedState ==
    (fout.f = "poll" /\ fin.failAt # fout.n
        /\ fin.labels[fout.n] \notin fin.conf.pending
        /\ ~Hit(fin.conf, fin.labels[fout.n]))
    => fout.verdict = "unexpected_state" /\ ~ENABLED PollerStep

\* C23 witness: the labels CREATING, DELETING with CREATING pending and
\* ACTIVE the target: unexpected state on the second poll.
C23_Witness ==
    /\ fout.f = "poll"
    /\ fin.conf = [pending |-> {Creating}, target |-> {Active}]
    /\ SubSeq(fin.labels, 1, 2) = <<Creating, Deleting>>
    /\ fout.n = 2 /\ fout.verdict = "unexpected_state"

\* C24 as stated: an Update on an identity whose index or table is no longer
\* there returns an error, whether or not a capacity field changed.
C24_UpdateOfMissingIndexFails ==
    \A r \in Resources :
        (op[r].kind = "update" /\ op[r].pc = "done"
            /\ \/ op[r].rdesc = "absent"
               \/ op[r].upErr = "ResourceNotFoundException")
        => op[r].result # "ok"

\* C25: an Update that issued its capacity update keeps polling while the
\* index is UPDATING, up to the timeout, leaves the poll as soon as the index
\* is ACTIVE or CREATING and then ends with a Read; an Update that issues no
\* call ends with a Read as well.
C25_UpdateEndsWithRead ==
    \A r \in Resources :
        op[r].kind = "update"
        => /\ op[r].lastLabel = Updating
              => \/ op[r].pc = "wait" /\ op[r].polls < MaxPolls
                 \/ /\ op[r].pc = "done"
                    /\ op[r].result \in {"timeout", "refresh_error"}
           /\ op[r].lastLabel \in {Active, Creating}
              => /\ op[r].pc \in {"read", "done"}
                 /\ op[r].pc = "done" => op[r].rdesc # "none"
           /\ (op[r].pc = "done" /\ op[r].nUpd = 0
                  /\ op[r].result \notin ValidationErrors \cup {"invalid_id"})
              => op[r].rdesc # "none"
           /\ (op[r].pc = "done" /\ op[r].result = "ok")
              => op[r].rdesc # "none"

\* C25 witness: an Update issued its call, polled more than once and has
\* returned after a Read that found the index.
C25_Witness ==
    \E r \in Resources :
        /\ op[r].kind = "update" /\ op[r].pc = "done"
        /\ op[r].nUpd = 1 /\ op[r].polls >= 2
        /\ op[r].lastLabel = Active /\ op[r].rdesc = "found"

\* C26 as stated: a Create with a range key and no range key type fails with
\* an error, issues no create call and leaves the identity unset.
C26_MissingRangeKeyTypeFails ==
    \A r \in Resources :
        (op[r].kind = "create" /\ op[r].decl.range_key # ""
            /\ op[r].decl.range_key_type = "")
        => /\ op[r].nUpd = 0
           /\ d[r].id = <<>>
           /\ op[r].pc = "done" => op[r].result # "ok"

\* C26 as the code has it: a Create with a range key and no range key type
\* that does not adopt an index through auto-import fails with an error,
\* issues no create call and leaves the identity unset; once the table's
\* definitions are read and the hash key agrees with them, the error is the
\* missing range key type.
C26_MissingRangeKeyTypeFailsUnlessAdopted ==
    \A r \in Resources :
        (op[r].kind = "create" /\ op[r].decl.range_key # ""
            /\ op[r].decl.range_key_type = "" /\ op[r].probe # "present")
        => /\ op[r].nUpd = 0
           /\ d[r].id = <<>>
           /\ op[r].pc = "done" => op[r].result # "ok"
           /\ (op[r].pc = "done" /\ op[r].adRead # <<>>
                  /\ ~HoldsOther(op[r].adRead, op[r].decl.hash_key,
                                 op[r].decl.hash_key_type))
              => op[r].result = "missing_range_key_type"

\* C26 witness: a Create has returned the missing range key type error.
C26_Witness ==
    \E r \in Resources :
        /\ op[r].kind = "create" /\ op[r].pc = "done"
        /\ op[r].decl.range_key # "" /\ op[r].decl.range_key_type = ""
        /\ op[r].result = "missing_range_key_type"

\* each name is bound at most once
UniqueNames(ad) ==
    \A j, k \in 1..Len(ad) : ad[j].name = ad[k].name => j = k

NoDelimiter(id) == \A k \in 1..Len(id) : id[k] # ":"

C29_IdentityRoundTrip ==
    (fout.f = "id" /\ NoDelimiter(fin.tn))
    => /\ fout.id = fin.tn \o <<":">> \o fin.iname
       /\ fout.names = [err |-> "", tn |-> fin.tn, iname |-> fin.iname]

\* C29 witness: the round trip of an index name that contains ':'.
C29_Witness ==
    /\ fout.f = "id"
    /\ fin.tn = <<"t">> /\ fin.iname = <<"i", ":">>
    /\ fout.names.err = "" /\ fout.names.iname = <<"i", ":">>

\* the verdicts that end a wait
FinalVerdicts == {"success", "unexpected_state", "refresh_error", "timeout"}

\* some poll within the timeout finds a label of the target set, no refresh
\* errs up to it and every label before it is pending
ReachesTarget ==
    /\ fin.f = "poll"
    /\ \E k \in 1..Len(fin.labels) :
          /\ Hit(fin.conf, fin.labels[k])
          /\ fin.failAt = 0 \/ fin.failAt > k
          /\ \A j \in 1..(k - 1) : /\ fin.labels[j] \in fin.conf.pending
                                   /\ ~Hit(fin.conf, fin.labels[j])

\* C30: every wait ends, after at most the polls the timeout allows, in
\* one of success, unexpected state, refresh error and timeout; a wait whose
\* index reaches the target set before the timeout, with no refresh error
\* and no label outside both sets on the way, ends in success.
C30_WaitTerminates ==
    /\ <>[](fout.f = "poll" /\ fout.verdict \in FinalVerdicts
               /\ fout.n <= MaxPolls)
    /\ ReachesTarget ~> (fout.f = "poll" /\ fout.verdict = "success")

\* C30 witness: a wait whose labels stayed pending has ended in the timeout.
C30_Witness ==
    /\ fout.f = "poll" /\ fout.n = MaxPolls /\ fout.verdict = "timeout"
    /\ \A j \in 1..MaxPolls : fin.labels[j] \in fin.conf.pending

\* the bindings the create request of r appends to the list it read
Appended(r) ==
    { op[r].input.ad[k] : k \in (Len(op[r].adRead) + 1)..Len(op[r].input.ad) }

\* both Creates have built their request from the same list
ReadSameList(r, s) ==
    /\ r # s
    /\ op[r].kind = "create" /\ op[s].kind = "create"
    /\ op[r].input.kind = "create" /\ op[s].input.kind = "create"
    /\ op[r].adRead = op[s].adRead

\* C31: two Creates on one table run side by side; when both have read the
\* same list of attribute definitions, the list each call carries is that
\* list and its own bindings, and lacks every binding the other Create
\* appends, also once the other's call has put that binding on the table.
C31_StaleDefinitionsCarried ==
    \A r, s \in Resources :
        ReadSameList(r, s)
        => /\ SubSeq(op[r].input.ad, 1, Len(op[r].adRead)) = op[r].adRead
           /\ \A b \in Appended(r) :
                  b.name \in {op[r].decl.hash_key, op[r].decl.range_key}
           /\ \A b \in Appended(s) :
                  b.name \notin {op[r].decl.hash_key, op[r].decl.range_key}
                  => ~Defined(op[r].input.ad, b.name)

\* C31 witness: both Creates read the same list before either called, both
\* calls were issued, and the call issued second carried a list without the
\* binding the first had put on the table.
C31_Witness ==
    \E r, s \in Resources :
        /\ ReadSameList(r, s)
        /\ op[r].nUpd = 1 /\ op[s].nUpd = 1
        /\ op[r].upErr = "" /\ op[s].upErr = ""
        /\ Appended(r) # {}
        /\ \E b \in Appended(s) :
              /\ Defined(tbl.ad, b.name)
              /\ ~Defined(op[r].input.ad, b.name)

\* the fields no Read sets
FrameFields(x) ==
    <<x.table_name, x.name, x.billing_mode, x.autoscaling_enabled>>

Capacity(x) == <<x.read_capacity, x.write_capacity>>

\* C32: a Read that keeps the state leaves the persisted table name, index
\* name, billing mode and autoscaling flag as they were handed to it, by
\* the prior state for Read, the declaration for the auto-import probe and
\* the closing Read of Create, the plan for the closing Read of Update; the
\* read and write capacity stay as well when the index found reports no
\* provisioned throughput, and the whole state stays when no index is read.
C32_ReadFrame ==
    \A r \in Resources :
        LET noPT == ~op[r].seen.i.pt.set IN
        /\ (op[r].kind = "read" /\ op[r].pc = "done" /\ d[r].id # <<>>)
           => /\ FrameFields(d[r]) = FrameFields(op[r].old)
              /\ op[r].rdesc = "found" /\ noPT
                 => Capacity(d[r]) = Capacity(op[r].old)
              /\ op[r].rdesc # "found" => d[r] = op[r].old
        /\ (op[r].kind = "create" /\ op[r].pc = "done" /\ d[r].id # <<>>
               /\ (op[r].probe = "present" \/ op[r].rdesc = "found"))
           => /\ FrameFields(d[r]) = FrameFields(FromConfig(op[r].decl))
              /\ (op[r].probe = "present" /\ noPT)
                 => Capacity(d[r]) = Capacity(FromConfig(op[r].decl))
        /\ (op[r].kind = "update" /\ op[r].pc = "done" /\ d[r].id # <<>>
               /\ op[r].rdesc = "found")
           => /\ FrameFields(d[r])
                 = FrameFields(Planned(op[r].old, op[r].decl))
              /\ noPT => Capacity(d[r])
                         = Capacity(Planned(op[r].old, op[r].decl))

\* C32 witness: the auto-import probe found an index without provisioned
\* throughput and left the declared capacity and billing mode in the state.
C32_Witness ==
    \E r \in Resources :
        /\ op[r].kind = "create" /\ op[r].pc = "done" /\ op[r].result = "ok"
        /\ op[r].probe = "present" /\ ~op[r].seen.i.pt.set
        /\ d[r].billing_mode = Provisioned /\ d[r].read_capacity > 0

\* C33: after a Read that found the index, the persisted range key type is
\* non-empty only if the persisted range key is.
C33_RangeKeyTypeFollowsRangeKey ==
    \A r \in Resources :
        (op[r].pc = "done" /\ op[r].result = "ok"
            /\ (op[r].rdesc = "found" \/ op[r].probe = "present"))
        => (d[r].range_key_type # "" => d[r].range_key # "")

====
